---- MODULE Spec2Model ----
(***************************************************************************)
(* Pool discovery and liquidity tracking loop of PoolListener              *)
(* (src/main.py wiring of src/src/blockchain/pool_monitor.py,              *)
(*  src/src/database/manager.py, src/src/blockchain/web3_client.py and     *)
(*  src/src/notifications/manager.py).                                     *)
(*                                                                         *)
(* One monitor cycle is modelled as the steps the coroutine goes through:  *)
(*   idle -> (get_latest_block) -> query -> events* -> cursor -> query ... *)
(*        -> rescan -> gather (worker threads) -> idle                     *)
(* The chain, the SMTP server and sqlite are the environment: their        *)
(* answers are chosen nondeterministically from small sets.                *)
(***************************************************************************)
EXTENDS Integers, Sequences, FiniteSets, TLC

(* ------------------------------------------------------------------ *)
(* Program constants                                                    *)
(* ------------------------------------------------------------------ *)

\* pool_monitor.py:74
MAX_BLOCKS_PER_QUERY == 1000

\* manager.py:110, the literal save_pool compares the liquidity with
DEFAULT_THRESHOLD == 1000

\* notifications/manager.py:50, backoff max_tries
MAX_TRIES == 3

\* settings.py:41
max_worker_threads == 5

\* web3_client.py:96, stop_after_attempt of get_latest_block
LATEST_BLOCK_TRIES == 3

\* web3_client.py:125, stop_after_attempt of get_events
GET_EVENTS_TRIES == 5

\* settings.polling_interval: seconds slept after a cycle
polling_interval == 12

\* settings.liquidity_check_interval: seconds meant to separate two rescans
liquidity_check_interval == 30

\* seconds slept after a cycle that raised
ERROR_SLEEP == 30

\* value of elapsed while no rescan has begun
NoRescanYet == -1

(* ------------------------------------------------------------------ *)
(* Bounds of the model                                                  *)
(* ------------------------------------------------------------------ *)

\* creation events the chain delivers over a whole run
MaxEvents == 2

\* creation events one get_events answer carries
MaxEventsPerQuery == 2

\* entries the notification log holds when the store is driven on its own
MaxLog == 2

\* non-tradeable pools in the store when a rescan cycle is taken on its own
MaxRescanPools == 6

\* starts of the process on one store
MaxBoots == 2

\* creation events the chain delivers in a run under fair scheduling
MaxLiveEvents == 1

\* ticks of the store's clock when the store is driven on its own
MaxClock == 1

(* ------------------------------------------------------------------ *)
(* Input sets                                                           *)
(* ------------------------------------------------------------------ *)

\* block heights eth.block_number can answer
Heights == {0, 1000, 1001, 2500}

\* values of the pool contract's liquidity() view
LiquidityValues == {0, 500, 1500}

\* values of settings.min_liquidity_threshold
Thresholds == {500, 1000, 2000}

\* numbers of leading attempts of get_latest_block that raise a transient
\* error: none, all but the last of the budget, all of the budget
LatestBlockFails == {0, LATEST_BLOCK_TRIES - 1, LATEST_BLOCK_TRIES}

\* the same for get_events
GetEventsFails == {0, GET_EVENTS_TRIES - 1, GET_EVENTS_TRIES}

\* attempts of one send_notification, counted from the first, in which a
\* channel (email, a Discord server, another Apprise channel) fails
ChannelFails == 0..MAX_TRIES

\* outcome of a liquidity() call that raised
ProbeFailed == -1

\* no liquidity() call was made
NoProbe == -2

ProbeOutcomes == LiquidityValues \cup {ProbeFailed}

\* str.lower() on the address strings of the model
lower(s) ==
    CASE s = "0xTT" -> "0xtt"
      [] s = "0xAA" -> "0xaa"
      [] s = "0xP1" -> "0xp1"
      [] OTHER -> s

\* settings.token_address as given in the environment (mixed case)
CONFIGURED_TOKEN == "0xTT"

\* Settings.validate_token_address returns v.lower()
token_address == lower(CONFIGURED_TOKEN)

\* PoolCreated events the factory can emit (args of the event)
CreationEvents ==
    { [token0 |-> "0xTT", token1 |-> "0xAA", fee |-> 3000, pool |-> "0xP1"],
      [token0 |-> "0xtt", token1 |-> "0xaa", fee |-> 3000, pool |-> "0xp1"],
      [token0 |-> "0xaa", token1 |-> "0xTT", fee |-> 500,  pool |-> "0xp2"],
      [token0 |-> "0xaa", token1 |-> "0xbb", fee |-> 500,  pool |-> "0xp3"] }

\* pool addresses as stored (lower case)
PoolAddrs == { lower(e.pool) : e \in CreationEvents }

Kinds == {"pool_created", "liquidity_added"}

\* sequences over S of length at most n
RECURSIVE SeqsUpTo(_, _)
SeqsUpTo(S, n) ==
    IF n = 0 THEN { <<>> }
    ELSE LET shorter == SeqsUpTo(S, n - 1)
         IN  shorter \cup { Append(q, x) : q \in shorter, x \in S }

Min(a, b) == IF a <= b THEN a ELSE b

(* ------------------------------------------------------------------ *)
(* State                                                                *)
(* ------------------------------------------------------------------ *)

VARIABLES
    pc,                      \* position of the monitor coroutine
    threshold,               \* settings.min_liquidity_threshold
    latest_processed_block,  \* PoolMonitor.latest_processed_block
    current_block,           \* local of _check_new_pools
    chunk_start,             \* loop variable of the chunk loop
    events,                  \* events of the current query still to process
    pools,                   \* table discovered_pools, keyed by address
    notification_log,        \* table notification_log
    work,                    \* pool_data snapshots handed to the executor
    taskState,               \* state of each executor task of this cycle
    eventsLeft,              \* events the chain may still deliver
    dispatched,              \* send_notification calls per address and kind
    elapsed,                 \* seconds slept since the last rescan began
    now,                     \* CURRENT_TIMESTAMP of the store, in clock ticks
    boot,                    \* starts of the process on this store so far, and
                             \* the pools stored tradeable at the last one
    covered,                 \* blocks answered by successful queries so far
    flipped,                 \* addresses whose flag went FALSE -> TRUE
    queries,                 \* (from_block, to_block) filters of this tick
    tick,                    \* range and outcome of this discovery tick
    last                     \* what the last step did

vars == << pc, threshold, latest_processed_block, current_block, chunk_start,
           events, pools, notification_log, work, taskState, eventsLeft,
           dispatched, flipped, queries, tick, last, elapsed, now, boot, covered >>

NoTick == [from |-> -1, latest |-> -1, status |-> "none"]

\* the process has been started once, on an empty store
FirstBoot == [count |-> 1, tradeable |-> {}]

\* what get_stats answers when sqlite raises: the empty dictionary
NoStats == [k \in {} |-> 0]

NoStep == [op |-> "none", addr |-> "", probe |-> NoProbe, kind |-> "",
           attempts |-> 0, emailFails |-> 0, discordFails |-> 0,
           otherFails |-> 0, delivered |-> FALSE,
           saved |-> FALSE, result |-> <<>>, stats |-> NoStats,
           fails |-> 0]

Init ==
    /\ pc = "idle"
    /\ threshold \in Thresholds
    /\ latest_processed_block \in Heights
    /\ current_block = -1
    /\ chunk_start = -1
    /\ events = <<>>
    /\ pools = [a \in {} |-> 0]
    /\ notification_log = <<>>
    /\ work = [a \in {} |-> 0]
    /\ taskState = [a \in {} |-> ""]
    /\ eventsLeft = MaxEvents
    /\ dispatched = [a \in PoolAddrs |-> [k \in Kinds |-> 0]]
    /\ elapsed = NoRescanYet
    /\ now = 0
    /\ boot = FirstBoot
    /\ covered = [upto |-> latest_processed_block, once |-> TRUE]
    /\ flipped = {}
    /\ queries = <<>>
    /\ tick = NoTick
    /\ last = NoStep

(* ------------------------------------------------------------------ *)
(* Chain reader, store and dispatcher as operators                      *)
(* ------------------------------------------------------------------ *)

\* the comparison of token1 left out of the second operand: a non-empty
\* string is truthy
involves_target_token_truthy(token0, token1) ==
    \/ lower(token0) = lower(token_address)
    \/ lower(token1) # ""

\* PoolMonitor._involves_target_token
involves_target_token(token0, token1) ==
    \/ lower(token0) = lower(token_address)
    \/ lower(token1) = lower(token_address)

\* a failed read answered as sufficient liquidity
check_pool_liquidity_failure_sufficient(outcome, min_threshold) ==
    IF outcome = ProbeFailed
    THEN << TRUE, 0 >>
    ELSE << outcome >= min_threshold, outcome >>

\* Web3Client.check_pool_liquidity: outcome is what liquidity().call() did.
\* The except clause of the body answers (False, 0) for every exception, so
\* the retry decorator never sees one.
check_pool_liquidity(outcome, min_threshold) ==
    IF outcome = ProbeFailed
    THEN << FALSE, 0 >>
    ELSE << outcome >= min_threshold, outcome >>

\* DatabaseManager.save_pool: INSERT OR REPLACE of the whole row, the columns
\* the statement does not name taking their defaults (discovered_at DEFAULT
\* CURRENT_TIMESTAMP); ok is FALSE when sqlite raises (the method logs and
\* returns False)
save_pool(tbl, pool_data, timestamp, ok) ==
    IF ~ok
    THEN tbl
    ELSE [a \in (DOMAIN tbl) \cup {pool_data.address} |->
            IF a = pool_data.address
            THEN [address |-> pool_data.address,
                  token0 |-> pool_data.token0,
                  token1 |-> pool_data.token1,
                  fee |-> pool_data.fee,
                  initial_liquidity |-> pool_data.liquidity,
                  current_liquidity |-> pool_data.liquidity,
                  is_tradeable |-> pool_data.liquidity >= DEFAULT_THRESHOLD,
                  discovered_at |-> timestamp]
            ELSE tbl[a]]

\* an UPDATE that sets current_liquidity and leaves the flag as it is
mark_pool_tradeable_liquidity_only(tbl, pool_address, liquidity, ok) ==
    IF ok /\ pool_address \in DOMAIN tbl
    THEN [tbl EXCEPT ![pool_address].current_liquidity = liquidity]
    ELSE tbl

\* DatabaseManager.mark_pool_tradeable: UPDATE ... WHERE address = ?
mark_pool_tradeable(tbl, pool_address, liquidity, ok) ==
    IF ok /\ pool_address \in DOMAIN tbl
    THEN [tbl EXCEPT ![pool_address].is_tradeable = TRUE,
                     ![pool_address].current_liquidity = liquidity]
    ELSE tbl

\* the lists that hold each element of S once
Orderings(S) ==
    { q \in [1..Cardinality(S) -> S] :
        \A i, j \in 1..Cardinality(S) : q[i] = q[j] => i = j }

\* a SELECT without its WHERE clause: every row, newest first
get_non_tradeable_pools_no_where(tbl, ok) ==
    IF ~ok
    THEN { <<>> }
    ELSE { [i \in DOMAIN q |-> tbl[q[i]]] :
             q \in { o \in Orderings(DOMAIN tbl) :
                       \A i, j \in DOMAIN o :
                         i < j => tbl[o[i]].discovered_at >= tbl[o[j]].discovered_at } }

\* DatabaseManager.get_non_tradeable_pools: the lists the SELECT may answer,
\* i.e. the rows with is_tradeable = FALSE as dictionaries, ORDER BY
\* discovered_at DESC (rows of one timestamp in whatever order sqlite
\* yields them); [] when sqlite raises
get_non_tradeable_pools(tbl, ok) ==
    IF ~ok
    THEN { <<>> }
    ELSE LET matching == { x \in DOMAIN tbl : ~tbl[x].is_tradeable }
         IN  { [i \in DOMAIN q |-> tbl[q[i]]] :
                 q \in { o \in Orderings(matching) :
                           \A i, j \in DOMAIN o :
                             i < j => tbl[o[i]].discovered_at >= tbl[o[j]].discovered_at } }

\* a log that keeps the entry written last and nothing else
log_notification_overwriting(log, pool_address, notification_type, success, ok) ==
    IF ok
    THEN << [pool_address |-> pool_address,
             notification_type |-> notification_type,
             success |-> success] >>
    ELSE log

\* DatabaseManager.log_notification, lines 154-169: INSERT INTO
\* notification_log; ok is FALSE when sqlite raises, which is logged and
\* changes nothing
log_notification(log, pool_address, notification_type, success, ok) ==
    IF ok
    THEN Append(log, [pool_address |-> pool_address,
                      notification_type |-> notification_type,
                      success |-> success])
    ELSE log

\* DatabaseManager.get_stats: the four COUNT(*) queries; {} when sqlite raises
get_stats(tbl, log, ok) ==
    IF ~ok
    THEN NoStats
    ELSE [total_pools |-> Cardinality(DOMAIN tbl),
          tradeable_pools |->
            Cardinality({ a \in DOMAIN tbl : tbl[a].is_tradeable }),
          successful_notifications |->
            Cardinality({ i \in DOMAIN log : log[i].success }),
          failed_notifications |->
            Cardinality({ i \in DOMAIN log : ~log[i].success })]

\* a send_notification whose channel helpers all let their errors escape
attempt_raises_any_channel(discordFailed, emailFailed, otherFailed) ==
    discordFailed \/ emailFailed \/ otherFailed

\* NotificationManager.send_notification, lines 55-75, one call of the body:
\* _send_discord_notification (77-109) and _send_other_notifications
\* (148-173) catch and log every exception of theirs, _send_email_notification
\* (111-146) logs and re-raises, and the except clause of line 73 re-raises
attempt_raises(discordFailed, emailFailed, otherFailed) == emailFailed

\* NotificationManager.send_notification under backoff.on_exception:
\* emailFails, discordFails and otherFails are the numbers of attempts,
\* counted from the first, in which that channel's delivery fails
RECURSIVE retry_send(_, _, _, _)
\* backoff.on_exception(backoff.expo, Exception, max_tries=3): the call
\* numbered tries (from 1) returns when it does not raise; backoff gives up
\* and re-raises when the call numbered max_tries raised; else it calls again
retry_send(tries, emailFails, discordFails, otherFails) ==
    IF ~attempt_raises(tries <= discordFails, tries <= emailFails,
                       tries <= otherFails)
    THEN [attempts |-> tries, delivered |-> TRUE]
    ELSE IF tries = MAX_TRIES
         THEN [attempts |-> tries, delivered |-> FALSE]
         ELSE retry_send(tries + 1, emailFails, discordFails, otherFails)

\* a decorator that calls again until a call returns
send_notification_until_success(emailFails, discordFails, otherFails) ==
    [attempts |-> emailFails + 1, delivered |-> TRUE]

send_notification(emailFails, discordFails, otherFails) ==
    retry_send(1, emailFails, discordFails, otherFails)

\* a worker thread of the ThreadPoolExecutor has no running event loop, so
\* asyncio.create_task in _check_single_pool raises RuntimeError
WorkerHasRunningLoop == FALSE

(* ------------------------------------------------------------------ *)
(* Discovery tick: PoolMonitor._check_new_pools                         *)
(* ------------------------------------------------------------------ *)

from_block == tick.from

blocks_to_check == current_block - from_block + 1

chunked == blocks_to_check > MAX_BLOCKS_PER_QUERY

\* the chunk end not capped by the height read
chunk_end_uncapped ==
    IF chunked
    THEN chunk_start + MAX_BLOCKS_PER_QUERY - 1
    ELSE current_block

\* the chunk end one block too far: consecutive chunks overlap
chunk_end_overlapping ==
    IF chunked
    THEN Min(chunk_start + MAX_BLOCKS_PER_QUERY, current_block)
    ELSE current_block

\* upper bound of the query that starts at chunk_start
chunk_end ==
    IF chunked
    THEN Min(chunk_start + MAX_BLOCKS_PER_QUERY - 1, current_block)
    ELSE current_block

\* the guard written with < in place of <=
NothingNew_strict(height) == height < latest_processed_block

\* the guard written with == in place of <=
NothingNew_equal_only(height) == height = latest_processed_block

\* line 64: the height read is not beyond the cursor
NothingNew(height) == height <= latest_processed_block

\* line 80: range() has a further chunk_start after this one
MoreChunks ==
    chunked /\ chunk_start + MAX_BLOCKS_PER_QUERY < current_block + 1

\* the cursor moved only once, after the last chunk of the loop
CursorAfterRange_deferred ==
    IF MoreChunks THEN latest_processed_block ELSE chunk_end

\* lines 99 and 116: the value the cursor takes when a range is done
CursorAfterRange == chunk_end

\* an except clause that gives the failed range up and moves the cursor on
cursor_after_query_error_skipping == chunk_end

\* lines 118-119: the except clause logs and returns; lines 99 and 116 were
\* not reached for the range whose query raised, the cursor keeps its value
cursor_after_query_error == latest_processed_block

\* the blocks that successful queries have answered since the cursor was
\* initialised: once says that every block of (initial cursor, upto] was in
\* exactly one answered range and no block above upto in any; q is the
\* range just queried
covered_after(c, q) ==
    IF q.ok
    THEN [upto |-> IF q.to_block > c.upto THEN q.to_block ELSE c.upto,
          once |-> c.once /\ q.from_block = c.upto + 1]
    ELSE c

\* every step recomputes the set of addresses whose flag went FALSE -> TRUE
Flips(old, new) ==
    { a \in (DOMAIN old) \cap (DOMAIN new) :
        ~old[a].is_tradeable /\ new[a].is_tradeable }

RECURSIVE retry_call(_, _, _)
\* tenacity retry(stop=stop_after_attempt(budget), retry=retry_if_exception_type
\* (Web3Exception, ConnectionError)) around a call whose first `fails`
\* attempts raise a transient chain error: the attempt numbered tries (from
\* 1) returns when it does not raise; when the attempt numbered budget raised
\* the decorator raises RetryError; else the call is made again
retry_call(tries, budget, fails) ==
    IF tries > fails
    THEN [attempts |-> tries, ok |-> TRUE]
    ELSE IF tries >= budget
         THEN [attempts |-> tries, ok |-> FALSE]
         ELSE retry_call(tries + 1, budget, fails)

\* a decorator with no stop condition
get_latest_block_unbounded(fails) == [attempts |-> fails + 1, ok |-> TRUE]

\* Web3Client.get_latest_block under its decorator (lines 95-106)
get_latest_block(fails) == retry_call(1, LATEST_BLOCK_TRIES, fails)

\* Web3Client.get_events under its decorator (lines 121-137)
get_events(fails) == retry_call(1, GET_EVENTS_TRIES, fails)

\* lines 61-71: read the height, return when nothing is new
\* a _check_new_pools without its try: the exception leaves _monitor_cycle
\* and start_monitoring's handler sleeps its cool-down
discovery_exception_handler_propagates == "cooldown"

\* lines 118-119: except Exception logs; _check_new_pools returns and
\* _monitor_cycle goes on to _check_existing_pools (line 51)
discovery_exception_handler == "rescan"

CheckNewPools ==
    /\ pc = "idle"
    /\ \E height \in Heights, fails \in LatestBlockFails :
       LET call == get_latest_block(fails)
       IN
       /\ last' = [NoStep EXCEPT !.op = "check_new_pools",
                                 !.attempts = call.attempts,
                                 !.fails = fails]
       /\
         IF ~call.ok
         THEN \* get_latest_block raised after its retries, line 118 logs
              /\ pc' = discovery_exception_handler
              /\ tick' = [from |-> -1, latest |-> -1, status |-> "height_failed"]
              /\ UNCHANGED << current_block, chunk_start >>
         ELSE IF NothingNew(height)
         THEN /\ pc' = "rescan"
              /\ tick' = [from |-> -1, latest |-> height, status |-> "noop"]
              /\ current_block' = height
              /\ UNCHANGED chunk_start
         ELSE /\ pc' = "query"
              /\ tick' = [from |-> latest_processed_block + 1,
                          latest |-> height, status |-> "running"]
              /\ current_block' = height
              /\ chunk_start' = latest_processed_block + 1
    /\ queries' = <<>>
    /\ UNCHANGED << threshold, latest_processed_block, events, pools,
                    notification_log, work, taskState, eventsLeft,
                    dispatched, flipped,
                    elapsed, now, boot, covered >>

\* the answers of one get_events call of at most n events: a pool is created
\* once, so an answer names a pool once (a reorganised chain delivers a
\* creation again in a later answer)
AnswersUpTo(n) ==
    { evs \in SeqsUpTo(CreationEvents, n) :
        \A i, j \in DOMAIN evs :
          lower(evs[i].pool) = lower(evs[j].pool) => i = j }

\* lines 86-93 and 105-111: create_event_filter and get_events of one range
\* (create_filter answers a filter object, which is truthy, or raises, so the
\* `if event_filter` branch is always taken; the retries of both calls are
\* inside the answer chosen here)
QueryChunk ==
    /\ pc = "query"
    /\ \E filterOk \in BOOLEAN, fails \in GetEventsFails :
       LET call == IF filterOk
                   THEN get_events(fails)
                   ELSE [attempts |-> 0, ok |-> FALSE]
       IN
       /\ last' = [NoStep EXCEPT !.op = "query",
                                 !.attempts = call.attempts,
                                 !.fails = IF filterOk THEN fails ELSE 0]
       /\ \/ /\ call.ok
             /\ \E evs \in AnswersUpTo(Min(MaxEventsPerQuery, eventsLeft)) :
                  /\ events' = evs
                  /\ eventsLeft' = eventsLeft - Len(evs)
             /\ queries' = Append(queries, [from_block |-> chunk_start,
                                            to_block |-> chunk_end, ok |-> TRUE])
             /\ pc' = "events"
             /\ tick' = tick
             /\ UNCHANGED latest_processed_block
          \/ \* create_event_filter (no get_events attempt is made) or
             \* get_events raised after its retries, line 118 logs
             /\ ~call.ok
             /\ queries' = Append(queries, [from_block |-> chunk_start,
                                            to_block |-> chunk_end, ok |-> FALSE])
             /\ pc' = discovery_exception_handler
             /\ tick' = [tick EXCEPT !.status = "query_failed"]
             /\ latest_processed_block' = cursor_after_query_error
             /\ UNCHANGED << events, eventsLeft >>
       /\ covered' = covered_after(covered, [from_block |-> chunk_start,
                                             to_block |-> chunk_end,
                                             ok |-> call.ok])
    /\ UNCHANGED << threshold, current_block,
                    chunk_start, pools, notification_log, work, taskState,
                    dispatched, flipped,
                    elapsed, now, boot >>

\* a _process_pool_event that undoes its write when the dispatch failed
pools_after_dispatch_rollback(before, written, delivered) ==
    IF delivered THEN written ELSE before

\* lines 160 and 174-188: save_pool has committed before send_notification
\* is awaited, and the except clause of line 187 only logs
pools_after_dispatch(before, written, delivered) == written

\* a _process_pool_event that stores the event's address as the chain gave it
pool_key_verbatim(address) == address

\* line 127: the address a pool is stored and notified under
pool_key(address) == lower(address)

\* PoolMonitor._process_pool_event on the next event of the range; the
\* Discord servers and the other channels deliver here, their failures are
\* drawn in NotifySpec
ProcessEvent ==
    /\ pc = "events"
    /\ events # <<>>
    /\ LET event == Head(events)
           token0 == lower(event.token0)
           token1 == lower(event.token1)
           fee == event.fee
           pool_address == pool_key(event.pool)
       IN  IF ~involves_target_token(token0, token1)
           THEN /\ last' = [NoStep EXCEPT !.op = "event_discarded",
                                          !.addr = pool_address]
                /\ UNCHANGED << pools, dispatched, flipped >>
           ELSE \E outcome \in ProbeOutcomes, saveOk \in BOOLEAN,
                   emailFails \in ChannelFails :
                  LET probe == check_pool_liquidity(outcome, threshold)
                      has_liquidity == probe[1]
                      liquidity_amount == probe[2]
                      pool_data == [address |-> pool_address,
                                    token0 |-> token0,
                                    token1 |-> token1,
                                    fee |-> fee,
                                    liquidity |-> liquidity_amount]
                      notification_type == IF has_liquidity
                                           THEN "liquidity_added"
                                           ELSE "pool_created"
                      sent == send_notification(emailFails, 0, 0)
                      newPools == save_pool(pools, pool_data, now, saveOk)
                      kept == pools_after_dispatch(pools, newPools, sent.delivered)
                  IN  /\ pools' = kept
                      /\ dispatched' =
                           [dispatched EXCEPT ![lower(pool_address)][notification_type] = @ + 1]
                      /\ flipped' = flipped \cup Flips(pools, kept)
                      /\ last' = [op |-> "event_processed",
                                  addr |-> pool_address,
                                  probe |-> outcome,
                                  kind |-> notification_type,
                                  attempts |-> sent.attempts,
                                  emailFails |-> emailFails,
                                  discordFails |-> 0,
                                  otherFails |-> 0,
                                  delivered |-> sent.delivered,
                                  saved |-> saveOk,
                                  result |-> <<>>,
                                  stats |-> NoStats,
                                  fails |-> 0]
    /\ events' = Tail(events)
    /\ UNCHANGED << pc, threshold, latest_processed_block, current_block,
                    chunk_start, notification_log, work, taskState,
                    eventsLeft, queries, tick,
                    elapsed, now, boot, covered >>

\* lines 98-102 and 116: the range is done, move the cursor
AdvanceCursor ==
    /\ pc = "events"
    /\ events = <<>>
    /\ latest_processed_block' = CursorAfterRange
    /\ IF MoreChunks
       THEN /\ chunk_start' = chunk_start + MAX_BLOCKS_PER_QUERY
            /\ pc' = "query"
            /\ tick' = tick
       ELSE /\ chunk_start' = chunk_start
            /\ pc' = "rescan"
            /\ tick' = [tick EXCEPT !.status = "ok"]
    /\ last' = [NoStep EXCEPT !.op = "advance_cursor"]
    /\ UNCHANGED << threshold, current_block, events, pools,
                    notification_log, work, taskState, eventsLeft,
                    dispatched, flipped, queries,
                    elapsed, now, boot, covered >>

(* ------------------------------------------------------------------ *)
(* Rescan: PoolMonitor._check_existing_pools and _check_single_pool     *)
(* ------------------------------------------------------------------ *)

Running == { a \in DOMAIN taskState : taskState[a] = "running" }

\* lines 193-210: fetch the work list and submit one task per pool; the
\* locals of the _check_new_pools that returned are gone
CheckExistingPools ==
    /\ pc = "rescan"
    /\ \E ok \in BOOLEAN :
       \E non_tradeable_pools \in get_non_tradeable_pools(pools, ok) :
         IF non_tradeable_pools = <<>>
         THEN /\ pc' = "metrics"
              /\ UNCHANGED << work, taskState >>
         ELSE LET listed == { non_tradeable_pools[i].address :
                                i \in DOMAIN non_tradeable_pools }
                  pool_data(a) ==
                    non_tradeable_pools[
                      CHOOSE i \in DOMAIN non_tradeable_pools :
                        non_tradeable_pools[i].address = a]
              IN  /\ pc' = "gather"
                  /\ work' = [a \in listed |-> pool_data(a)]
                  /\ taskState' = [a \in listed |-> "queued"]
    /\ last' = [NoStep EXCEPT !.op = "check_existing_pools"]
    /\ elapsed' = 0
    /\ tick' = NoTick
    /\ queries' = <<>>
    /\ current_block' = -1
    /\ chunk_start' = -1
    /\ UNCHANGED << threshold, latest_processed_block, events, pools,
                    notification_log, eventsLeft, dispatched, flipped, now, boot, covered >>

\* an executor that starts a thread for every task submitted
executor_has_free_thread_always == TRUE

\* line 25: ThreadPoolExecutor(max_workers=settings.max_worker_threads) runs
\* a queued task only on one of its max_workers threads
executor_has_free_thread == Cardinality(Running) < max_worker_threads

\* a free thread of the executor takes a queued task
TaskStart(a) ==
    /\ pc = "gather"
    /\ a \in DOMAIN taskState
    /\ taskState[a] = "queued"
    /\ executor_has_free_thread
    /\ taskState' = [taskState EXCEPT ![a] = "running"]
    /\ last' = [NoStep EXCEPT !.op = "task_start", !.addr = a]
    /\ UNCHANGED << pc, threshold, latest_processed_block, current_block,
                    chunk_start, events, pools, notification_log, work,
                    eventsLeft, dispatched, flipped, queries, tick,
                    elapsed, now, boot, covered >>

\* a gather that cancels the tasks of the cycle when one probe raised
tasks_after_check_abort(tasks, a, outcome) ==
    IF outcome = ProbeFailed
    THEN [b \in DOMAIN tasks |-> "done"]
    ELSE [tasks EXCEPT ![a] = "done"]

\* lines 210-217 and 266-267: _check_single_pool catches what it raises and
\* gather(return_exceptions=True) waits for every task; a task that ends
\* changes no other task
tasks_after_check(tasks, a, outcome) == [tasks EXCEPT ![a] = "done"]

\* PoolMonitor._check_single_pool in its worker thread
CheckSinglePool(a) ==
    /\ pc = "gather"
    /\ a \in DOMAIN taskState
    /\ taskState[a] = "running"
    /\ \E outcome \in ProbeOutcomes, markOk \in BOOLEAN :
         LET pool_data == work[a]
             probe == check_pool_liquidity(outcome, threshold)
             has_liquidity == probe[1]
             current_liquidity == probe[2]
         IN  IF has_liquidity /\ ~pool_data.is_tradeable
             THEN LET newPools == mark_pool_tradeable(pools, a, current_liquidity, markOk)
                  IN  /\ taskState' = tasks_after_check(taskState, a, outcome)
                      /\ pools' = newPools
                      /\ flipped' = flipped \cup Flips(pools, newPools)
                      /\ dispatched' =
                           IF WorkerHasRunningLoop
                           THEN [dispatched EXCEPT ![a]["liquidity_added"] = @ + 1]
                           ELSE dispatched
                      /\ last' = [NoStep EXCEPT !.op = "pool_became_tradeable",
                                                !.addr = a,
                                                !.probe = outcome,
                                                !.saved = markOk]
             ELSE /\ taskState' = tasks_after_check(taskState, a, outcome)
                  /\ UNCHANGED << pools, flipped, dispatched >>
                  /\ last' = [NoStep EXCEPT !.op = "pool_checked",
                                            !.addr = a,
                                            !.probe = outcome]
    /\ UNCHANGED << pc, threshold, latest_processed_block, current_block,
                    chunk_start, events, notification_log, work,
                    eventsLeft, queries, tick,
                    elapsed, now, boot, covered >>

\* a wait that returns as soon as one task of the cycle is done
gather_returns_first_completed ==
    \E a \in DOMAIN taskState : taskState[a] = "done"

\* line 213: asyncio.gather(*tasks, return_exceptions=True) returns when
\* every task is done
gather_returns ==
    \A a \in DOMAIN taskState : taskState[a] = "done"

\* line 213 returns and _check_existing_pools with it
GatherDone ==
    /\ pc = "gather"
    /\ gather_returns
    /\ pc' = "metrics"
    /\ work' = [a \in {} |-> 0]
    /\ taskState' = [a \in {} |-> ""]
    /\ last' = [NoStep EXCEPT !.op = "gather_done"]
    /\ UNCHANGED << threshold, latest_processed_block, current_block,
                    chunk_start, events, pools, notification_log,
                    eventsLeft, dispatched, flipped, queries, tick,
                    elapsed, now, boot, covered >>

(* ------------------------------------------------------------------ *)
(* The loop: PoolMonitor.start_monitoring and the end of _monitor_cycle  *)
(* ------------------------------------------------------------------ *)

\* a handler that logs the exception of a cycle and raises it again
cycle_exception_handler_reraise == "stopped"

\* lines 42-44: except Exception logs and sleeps; the while loop goes on
cycle_exception_handler == "cooldown"

\* lines 54-57 and 37: the gauge of stored pools is set and the loop sleeps
\* polling_interval; these statements are under no try of the cycle, so an
\* exception of theirs reaches start_monitoring
UpdateMetrics ==
    /\ pc = "metrics"
    /\ \E raised \in BOOLEAN :
         IF raised
         THEN /\ pc' = cycle_exception_handler
              /\ last' = [NoStep EXCEPT !.op = "cycle_raised"]
              /\ elapsed' = elapsed
         ELSE /\ pc' = "idle"
              /\ last' = [NoStep EXCEPT !.op = "cycle_done"]
              /\ elapsed' = elapsed + polling_interval
    /\ UNCHANGED << threshold, latest_processed_block, current_block,
                    chunk_start, events, pools, notification_log, work,
                    taskState, eventsLeft, dispatched, flipped, queries,
                    tick, now, boot, covered >>

\* line 44: asyncio.sleep(30) in the handler, then the next iteration
Cooldown ==
    /\ pc = "cooldown"
    /\ pc' = "idle"
    /\ elapsed' = elapsed + ERROR_SLEEP
    /\ last' = [NoStep EXCEPT !.op = "cooldown"]
    /\ UNCHANGED << threshold, latest_processed_block, current_block,
                    chunk_start, events, pools, notification_log, work,
                    taskState, eventsLeft, dispatched, flipped, queries,
                    tick, now, boot, covered >>

\* lines 39-41: the user interrupts the loop while it sleeps
KeyboardInterrupt ==
    /\ pc \in {"idle", "cooldown"}
    /\ pc' = "stopped"
    /\ last' = [NoStep EXCEPT !.op = "keyboard_interrupt"]
    /\ UNCHANGED << threshold, latest_processed_block, current_block,
                    chunk_start, events, pools, notification_log, work,
                    taskState, eventsLeft, dispatched, flipped, queries,
                    tick, elapsed, now, boot, covered >>

Next ==
    \/ CheckNewPools
    \/ QueryChunk
    \/ ProcessEvent
    \/ AdvanceCursor
    \/ CheckExistingPools
    \/ \E a \in PoolAddrs : TaskStart(a)
    \/ \E a \in PoolAddrs : CheckSinglePool(a)
    \/ GatherDone
    \/ UpdateMetrics
    \/ Cooldown
    \/ KeyboardInterrupt

Spec == Init /\ [][Next]_vars

TypeOK ==
    /\ pc \in {"idle", "query", "events", "rescan", "gather", "metrics",
              "cooldown", "stopped", "store"}
    /\ now \in 0..MaxClock
    /\ elapsed \in {NoRescanYet, 0, polling_interval, ERROR_SLEEP}
    /\ threshold \in Thresholds
    /\ latest_processed_block \in Nat
    /\ eventsLeft \in 0..MaxEvents
    /\ DOMAIN pools \subseteq PoolAddrs
    /\ flipped \subseteq PoolAddrs

(* ------------------------------------------------------------------ *)
(* The store on its own: calls of DatabaseManager in any order          *)
(* ------------------------------------------------------------------ *)

\* addresses the callers pass
StoreAddrs == {"0xp1", "0xp2"}

\* liquidities the callers pass: one below and one above the literal of
\* save_pool
StoreLiquidities == {500, 1500}

\* the pool_data dictionaries the callers pass to save_pool
PoolDataInputs ==
    { [address |-> a, token0 |-> token_address, token1 |-> "0xaa",
       fee |-> 3000, liquidity |-> l] :
        a \in StoreAddrs, l \in StoreLiquidities }

\* DatabaseManager.__init__ and init_database on a new file
StoreInit ==
    /\ pc = "store"
    /\ threshold = DEFAULT_THRESHOLD
    /\ latest_processed_block = 0
    /\ current_block = -1
    /\ chunk_start = -1
    /\ events = <<>>
    /\ pools = [a \in {} |-> 0]
    /\ notification_log = <<>>
    /\ work = [a \in {} |-> 0]
    /\ taskState = [a \in {} |-> ""]
    /\ eventsLeft = 0
    /\ dispatched = [a \in PoolAddrs |-> [k \in Kinds |-> 0]]
    /\ elapsed = NoRescanYet
    /\ now = 0
    /\ boot = FirstBoot
    /\ covered = [upto |-> latest_processed_block, once |-> TRUE]
    /\ flipped = {}
    /\ queries = <<>>
    /\ tick = NoTick
    /\ last = NoStep

\* a second of the store's clock passes
StoreClockTick ==
    /\ pc = "store"
    /\ now < MaxClock
    /\ now' = now + 1
    /\ last' = [NoStep EXCEPT !.op = "clock_tick"]
    /\ UNCHANGED << pc, threshold, latest_processed_block, current_block,
                    chunk_start, events, pools, notification_log, work,
                    taskState, eventsLeft, dispatched, flipped, queries,
                    tick, elapsed, boot, covered >>

\* db.save_pool(pool_data)
StoreSavePool ==
    /\ pc = "store"
    /\ \E pool_data \in PoolDataInputs, ok \in BOOLEAN :
         /\ pools' = save_pool(pools, pool_data, now, ok)
         /\ last' = [NoStep EXCEPT !.op = "save_pool",
                                   !.addr = pool_data.address,
                                   !.probe = pool_data.liquidity,
                                   !.saved = ok]
    /\ UNCHANGED << pc, threshold, latest_processed_block, current_block,
                    chunk_start, events, notification_log, work,
                    taskState, eventsLeft, dispatched, flipped, queries,
                    tick, elapsed, now, boot, covered >>

\* db.mark_pool_tradeable(pool_address, liquidity)
StoreMarkPoolTradeable ==
    /\ pc = "store"
    /\ \E pool_address \in StoreAddrs, liquidity \in StoreLiquidities,
          ok \in BOOLEAN :
         /\ pools' = mark_pool_tradeable(pools, pool_address, liquidity, ok)
         /\ last' = [NoStep EXCEPT !.op = "mark_pool_tradeable",
                                   !.addr = pool_address,
                                   !.probe = liquidity,
                                   !.saved = ok]
    /\ UNCHANGED << pc, threshold, latest_processed_block, current_block,
                    chunk_start, events, notification_log, work,
                    taskState, eventsLeft, dispatched, flipped, queries,
                    tick, elapsed, now, boot, covered >>

\* db.get_non_tradeable_pools()
StoreGetNonTradeablePools ==
    /\ pc = "store"
    /\ \E ok \in BOOLEAN :
       \E answer \in get_non_tradeable_pools(pools, ok) :
         last' = [NoStep EXCEPT !.op = "get_non_tradeable_pools",
                                !.saved = ok,
                                !.result = answer]
    /\ UNCHANGED << pc, threshold, latest_processed_block, current_block,
                    chunk_start, events, pools, notification_log, work,
                    taskState, eventsLeft, dispatched, flipped, queries,
                    tick, elapsed, now, boot, covered >>

\* db.get_stats()
StoreGetStats ==
    /\ pc = "store"
    /\ \E ok \in BOOLEAN :
         last' = [NoStep EXCEPT !.op = "get_stats",
                                !.saved = ok,
                                !.stats = get_stats(pools, notification_log, ok)]
    /\ UNCHANGED << pc, threshold, latest_processed_block, current_block,
                    chunk_start, events, pools, notification_log, work,
                    taskState, eventsLeft, dispatched, flipped, queries,
                    tick, elapsed, now, boot, covered >>

\* db.log_notification(pool_address, notification_type, success, channels)
StoreLogNotification ==
    /\ pc = "store"
    /\ Len(notification_log) < MaxLog
    /\ \E pool_address \in {"0xp1"}, notification_type \in {"pool_created"},
          success \in BOOLEAN, ok \in BOOLEAN :
         /\ notification_log' =
              log_notification(notification_log, pool_address,
                               notification_type, success, ok)
         /\ last' = [NoStep EXCEPT !.op = "log_notification",
                                   !.addr = pool_address,
                                   !.kind = notification_type,
                                   !.saved = ok]
    /\ UNCHANGED << pc, threshold, latest_processed_block, current_block,
                    chunk_start, events, pools, work,
                    taskState, eventsLeft, dispatched, flipped, queries,
                    tick, elapsed, now, boot, covered >>

StoreNext ==
    \/ StoreClockTick
    \/ StoreSavePool
    \/ StoreMarkPoolTradeable
    \/ StoreGetNonTradeablePools
    \/ StoreGetStats
    \/ StoreLogNotification

StoreSpec == StoreInit /\ [][StoreNext]_vars

(* ------------------------------------------------------------------ *)
(* The monitor with restarts of the process on the same database file   *)
(* ------------------------------------------------------------------ *)

\* the process ends (at any point of a cycle) and main.py is run again:
\* DatabaseManager opens the file that holds the two tables,
\* PoolMonitor.__init__ makes a new executor and reads the cursor from the
\* chain (line 26); what was in memory is gone
Restart ==
    /\ pc # "store"
    /\ boot.count < MaxBoots
    /\ \E height \in Heights :
         latest_processed_block' = height
    /\ pc' = "idle"
    /\ current_block' = -1
    /\ chunk_start' = -1
    /\ events' = <<>>
    /\ work' = [a \in {} |-> 0]
    /\ taskState' = [a \in {} |-> ""]
    /\ queries' = <<>>
    /\ tick' = NoTick
    /\ elapsed' = NoRescanYet
    /\ boot' = [count |-> boot.count + 1,
                tradeable |-> { a \in DOMAIN pools : pools[a].is_tradeable }]
    /\ covered' = [upto |-> latest_processed_block', once |-> TRUE]
    /\ last' = [NoStep EXCEPT !.op = "restart"]
    /\ UNCHANGED << threshold, pools, notification_log, eventsLeft,
                    dispatched, flipped, now >>

RestartNext ==
    \/ Next
    \/ Restart

RestartSpec == Init /\ [][RestartNext]_vars

(* ------------------------------------------------------------------ *)
(* One rescan cycle over a store that holds many non-tradeable pools    *)
(* ------------------------------------------------------------------ *)

\* the address of the i-th pool of the store
RescanAddr(i) ==
    CASE i = 1 -> "0xr1" [] i = 2 -> "0xr2" [] i = 3 -> "0xr3"
      [] i = 4 -> "0xr4" [] i = 5 -> "0xr5" [] i = 6 -> "0xr6"
      [] OTHER -> "0xr7"

RescanAddrs == { RescanAddr(i) : i \in 1..MaxRescanPools }

\* the row save_pool writes for a pool discovered with liquidity 0
SavedEmpty(a) ==
    save_pool([x \in {} |-> 0],
              [address |-> a, token0 |-> token_address, token1 |-> "0xaa",
               fee |-> 3000, liquidity |-> 0],
              0, TRUE)[a]

\* the monitor is about to rescan a store of n pools saved below the
\* threshold in earlier cycles
RescanInit ==
    /\ pc = "rescan"
    /\ threshold = DEFAULT_THRESHOLD
    /\ latest_processed_block = 0
    /\ current_block = -1
    /\ chunk_start = -1
    /\ events = <<>>
    /\ \E n \in 0..MaxRescanPools :
         pools = [a \in { RescanAddr(i) : i \in 1..n } |-> SavedEmpty(a)]
    /\ notification_log = <<>>
    /\ work = [a \in {} |-> 0]
    /\ taskState = [a \in {} |-> ""]
    /\ eventsLeft = 0
    /\ dispatched = [a \in PoolAddrs |-> [k \in Kinds |-> 0]]
    /\ elapsed = polling_interval
    /\ now = 0
    /\ boot = FirstBoot
    /\ covered = [upto |-> latest_processed_block, once |-> TRUE]
    /\ flipped = {}
    /\ queries = <<>>
    /\ tick = NoTick
    /\ last = NoStep

RescanNext ==
    \/ CheckExistingPools
    \/ \E a \in RescanAddrs : TaskStart(a)
    \/ \E a \in RescanAddrs : CheckSinglePool(a)
    \/ GatherDone

RescanSpec == RescanInit /\ [][RescanNext]_vars

(* ------------------------------------------------------------------ *)
(* Helpers of the properties                                            *)
(* ------------------------------------------------------------------ *)

\* the last step was _process_pool_event on a target-token event
Discovered == last.op = "event_processed"

\* the last step was _check_single_pool
Rescanned == last.op \in {"pool_checked", "pool_became_tradeable"}

\* the probe of the last step read a liquidity (it did not raise)
ProbeRead == last.probe \in LiquidityValues

\* send_notification calls made for an address so far
Dispatches(a) == dispatched[a]["pool_created"] + dispatched[a]["liquidity_added"]

\* the address is in the store
Stored(a) == a \in DOMAIN pools

(* ------------------------------------------------------------------ *)
(* C1                                                                   *)
(* ------------------------------------------------------------------ *)

\* C1: for every pool address at most one liquidity_added notification is
\* ever dispatched and the stored is_tradeable flag goes from FALSE to TRUE
\* at most once, whatever the rescans and ticks do.
C1_SingleTransition ==
    [][ /\ \A a \in PoolAddrs : dispatched'[a]["liquidity_added"] <= 1
        /\ Flips(pools, pools') \cap flipped = {} ]_vars

(* ------------------------------------------------------------------ *)
(* C2                                                                   *)
(* ------------------------------------------------------------------ *)

\* C2: a pool whose is_tradeable flag is TRUE in the store still has it TRUE
\* after every step, a repeated save_pool of the address included.
C2_TradeableFlagMonotonic ==
    [][ \A a \in DOMAIN pools :
          pools[a].is_tradeable => (a \in DOMAIN pools' /\ pools'[a].is_tradeable) ]_vars

(* ------------------------------------------------------------------ *)
(* C3                                                                   *)
(* ------------------------------------------------------------------ *)

\* C3, stated for the reference threshold of 1000 and for store writes that
\* succeed (the claim covers more; these cases are enough to decide it):
\* after the first discovery of a pool with a liquidity read below the
\* threshold the pool is stored with is_tradeable FALSE and one pool_created
\* notification has been dispatched; after a rescan of that pool that reads
\* a liquidity at or above the threshold the pool is is_tradeable TRUE, one
\* liquidity_added notification has been dispatched and the pool is no
\* longer in get_non_tradeable_pools.
C3_DiscoverThenRescan ==
    threshold = DEFAULT_THRESHOLD =>
      /\ ( /\ Discovered /\ last.saved /\ ProbeRead
           /\ last.probe < threshold
           /\ Dispatches(last.addr) = 1 )
         => /\ Stored(last.addr)
            /\ ~pools[last.addr].is_tradeable
            /\ dispatched[last.addr]["pool_created"] = 1
      /\ ( /\ Rescanned /\ last.saved /\ ProbeRead
           /\ last.probe >= threshold
           /\ dispatched[last.addr]["pool_created"] = 1 )
         => /\ Stored(last.addr)
            /\ pools[last.addr].is_tradeable
            /\ dispatched[last.addr]["liquidity_added"] = 1
            /\ last.addr \notin DOMAIN get_non_tradeable_pools(pools, TRUE)

(* ------------------------------------------------------------------ *)
(* C4                                                                   *)
(* ------------------------------------------------------------------ *)

\* C4, stated for store writes that succeed: after the first discovery of a
\* pool with a liquidity read at or above the configured threshold the pool
\* is stored with is_tradeable TRUE and the notification dispatched for it
\* is one liquidity_added and no pool_created; a later rescan of the pool
\* marks nothing and dispatches no second liquidity_added.
C4_TradeableAtDiscovery ==
    /\ ( /\ Discovered /\ last.saved /\ ProbeRead
         /\ last.probe >= threshold
         /\ Dispatches(last.addr) = 1 )
       => /\ Stored(last.addr)
          /\ pools[last.addr].is_tradeable
          /\ dispatched[last.addr]["liquidity_added"] = 1
          /\ dispatched[last.addr]["pool_created"] = 0
    /\ ( /\ Rescanned
         /\ dispatched[last.addr]["liquidity_added"] >= 1
         /\ dispatched[last.addr]["pool_created"] = 0 )
       => /\ last.op = "pool_checked"
          /\ dispatched[last.addr]["liquidity_added"] = 1

(* ------------------------------------------------------------------ *)
(* C5                                                                   *)
(* ------------------------------------------------------------------ *)

\* neither token of the event is the configured target token
NeitherTokenIsTarget(e) ==
    /\ lower(e.token0) # lower(CONFIGURED_TOKEN)
    /\ lower(e.token1) # lower(CONFIGURED_TOKEN)

\* C5: processing a creation event in which neither token is the target
\* token changes no pool record, makes no liquidity probe and dispatches or
\* logs no notification; and every stored address is the pool of some event
\* that involves the target token.
C5_NonTargetEventIgnored ==
    /\ [] ( \A a \in DOMAIN pools :
              \E e \in CreationEvents :
                 ~NeitherTokenIsTarget(e) /\ lower(e.pool) = a )
    /\ [][ ( /\ pc = "events" /\ events # <<>>
             /\ NeitherTokenIsTarget(Head(events))
             /\ events' = Tail(events) )
           => /\ pools' = pools
              /\ dispatched' = dispatched
              /\ notification_log' = notification_log
              /\ last'.probe = NoProbe ]_vars

\* a non-target event has just been processed while a target pool is stored
C5_Witness ==
    /\ last.op = "event_discarded"
    /\ ~Stored(last.addr)
    /\ pools # << >>

(* ------------------------------------------------------------------ *)
(* C6                                                                   *)
(* ------------------------------------------------------------------ *)

\* C6: a rescan of a stored pool whose liquidity read fails leaves the pool
\* records as they were and dispatches and logs no notification.
C6_ProbeFailureLeavesPool ==
    [][ (Rescanned' /\ last'.probe = ProbeFailed)
        => /\ pools' = pools
           /\ dispatched' = dispatched
           /\ notification_log' = notification_log ]_vars

\* a rescan of a stored pool has just had its liquidity read fail
C6_Witness ==
    /\ Rescanned
    /\ last.probe = ProbeFailed
    /\ Stored(last.addr)
    /\ ~pools[last.addr].is_tradeable

(* ------------------------------------------------------------------ *)
(* C7                                                                   *)
(* ------------------------------------------------------------------ *)

\* C7: latest_processed_block never decreases.
C7_CursorMonotonic ==
    [][ latest_processed_block' >= latest_processed_block ]_vars

\* the chain answered a height below the cursor after events were processed
C7_Witness ==
    /\ tick.status = "noop"
    /\ tick.latest < latest_processed_block
    /\ eventsLeft < MaxEvents

(* ------------------------------------------------------------------ *)
(* C8                                                                   *)
(* ------------------------------------------------------------------ *)

\* C8: when a discovery tick has processed its range without a failing
\* query, the cursor equals the height the tick read.
C8_CursorEqualsUpperBound ==
    tick.status = "ok" => latest_processed_block = tick.latest

\* a chunked tick of three queries has completed
C8_Witness ==
    /\ tick.status = "ok"
    /\ Len(queries) = 3
    /\ latest_processed_block = 2500

(* ------------------------------------------------------------------ *)
(* C9                                                                   *)
(* ------------------------------------------------------------------ *)

\* ceil(n / d) for n >= 0, d > 0
CeilDiv(n, d) == (n + d - 1) \div d

\* C9: the k-th query of a tick over [from, latest] is
\* [from + 1000(k-1), min(from + 1000k - 1, latest)], so the queries are
\* ascending, contiguous, disjoint and span at most 1000 blocks; a tick that
\* completes has issued ceil(n/1000) of them and the last one ends at latest.
C9_ChunkQueries ==
    LET n == tick.latest - tick.from + 1
    IN  IF tick.status \in {"running", "ok", "query_failed"}
        THEN /\ \A i \in 1..Len(queries) :
                  /\ queries[i].from_block = tick.from + 1000 * (i - 1)
                  /\ queries[i].to_block = Min(tick.from + 1000 * i - 1, tick.latest)
                  /\ queries[i].to_block - queries[i].from_block + 1 \in 1..1000
             /\ Len(queries) <= CeilDiv(n, 1000)
             /\ tick.status = "ok" =>
                  /\ Len(queries) = CeilDiv(n, 1000)
                  /\ queries[Len(queries)].to_block = tick.latest
        ELSE queries = << >>

\* a range of 2500 blocks starting at block 1 was queried in three chunks
C9_Witness ==
    /\ tick.status = "ok"
    /\ tick.from = 1
    /\ tick.latest = 2500
    /\ [i \in 1..Len(queries) |-> << queries[i].from_block, queries[i].to_block >>]
         = << <<1, 1000>>, <<1001, 2000>>, <<2001, 2500>> >>

(* ------------------------------------------------------------------ *)
(* C10                                                                  *)
(* ------------------------------------------------------------------ *)

\* C10: a query is issued only when no event of an earlier query is pending
\* and the cursor stands right below the chunk's first block; while the
\* events of a chunk are processed the cursor still stands below that
\* chunk; and the cursor moves only when no event is pending, to the end of
\* the chunk queried last.
C10_ChunksOneAtATime ==
    /\ [] ( /\ pc = "query" =>
                 /\ events = << >>
                 /\ latest_processed_block = chunk_start - 1
            /\ pc = "events" =>
                 /\ Len(queries) >= 1
                 /\ queries[Len(queries)].ok
                 /\ latest_processed_block = queries[Len(queries)].from_block - 1 )
    /\ [][ latest_processed_block' # latest_processed_block
           => /\ pc = "events"
              /\ events = << >>
              /\ latest_processed_block' = queries[Len(queries)].to_block ]_vars

\* the second chunk is about to be queried after an event of the first
\* chunk was processed
C10_Witness ==
    /\ pc = "query"
    /\ Len(queries) = 1
    /\ eventsLeft < MaxEvents
    /\ latest_processed_block = queries[1].to_block

(* ------------------------------------------------------------------ *)
(* C11                                                                  *)
(* ------------------------------------------------------------------ *)

\* C11: once the cursor has moved past the range of a target-token creation
\* event (no event of a queried range is pending), the pool of every such
\* event processed so far has a record in the store, a failing store write
\* included.
C11_ProcessedEventsStored ==
    pc # "events" =>
      \A a \in PoolAddrs : Dispatches(a) >= 1 => Stored(a)

(* ------------------------------------------------------------------ *)
(* C12                                                                  *)
(* ------------------------------------------------------------------ *)

\* C12: the store never holds two records of one address (addresses compared
\* without regard to letter case), and processing a creation event whose
\* address already has a record leaves the number of records unchanged.
C12_OneRecordPerAddress ==
    /\ [](\A a, b \in DOMAIN pools : lower(a) = lower(b) => a = b)
    /\ [][ ( /\ last'.op = "event_processed"
             /\ \E b \in DOMAIN pools : lower(b) = lower(last'.addr) )
           => Cardinality(DOMAIN pools') = Cardinality(DOMAIN pools) ]_vars

\* the same address was processed twice, the second time with a successful
\* write, and has one record
C12_Witness ==
    /\ last.op = "event_processed"
    /\ last.saved
    /\ Dispatches(last.addr) >= 2
    /\ Cardinality({ b \in DOMAIN pools : lower(b) = lower(last.addr) }) = 1

(* ------------------------------------------------------------------ *)
(* C15                                                                  *)
(* ------------------------------------------------------------------ *)

\* C15: one dispatch makes between one and three attempts; it is reported
\* delivered exactly when one of them succeeded, and then that attempt, the
\* first to succeed, was its last; it is reported failed only after three
\* attempts that all failed.
C15_AtMostThreeAttempts ==
    Discovered =>
      /\ last.attempts \in 1..3
      /\ last.delivered => last.attempts = last.emailFails + 1
      /\ ~last.delivered => (last.attempts = 3 /\ last.emailFails >= 3)

\* a dispatch that failed twice and was delivered by its third attempt, in
\* the processing of an event
C15_Witness ==
    /\ Discovered
    /\ last.emailFails = 2
    /\ last.attempts = 3
    /\ last.delivered

(* ------------------------------------------------------------------ *)
(* C16                                                                  *)
(* ------------------------------------------------------------------ *)

\* C16: the processing of a target-token event appends to the notification
\* log one entry for each attempt its dispatch made.
C16_EveryAttemptLogged ==
    [][ last'.op = "event_processed"
        => Len(notification_log') = Len(notification_log) + last'.attempts ]_vars

(* ------------------------------------------------------------------ *)
(* C17                                                                  *)
(* ------------------------------------------------------------------ *)

\* C17: after the processing of an event whose dispatch failed on all of its
\* attempts, the pool record that was written before the dispatch is in the
\* store as written, and the monitor is at the next event of the range (or
\* at the end of the range); a rescan that marked a pool leaves it marked.
C17_FailedDispatchKeepsState ==
    /\ (Discovered /\ ~last.delivered /\ last.saved) =>
         /\ Stored(last.addr)
         /\ LET amount == IF ProbeRead THEN last.probe ELSE 0
            IN  /\ pools[last.addr].initial_liquidity = amount
                /\ pools[last.addr].current_liquidity = amount
                /\ pools[last.addr].is_tradeable = (amount >= DEFAULT_THRESHOLD)
         /\ pc = "events"
    /\ (last.op = "pool_became_tradeable" /\ last.saved) =>
         /\ Stored(last.addr)
         /\ pools[last.addr].is_tradeable
         /\ pc = "gather"

\* three failed attempts after a successful write of a pool read at 1500
C17_Witness ==
    /\ Discovered
    /\ ~last.delivered
    /\ last.attempts = 3
    /\ last.saved
    /\ last.probe = 1500
    /\ Stored(last.addr)

(* ------------------------------------------------------------------ *)
(* C13                                                                  *)
(* ------------------------------------------------------------------ *)

\* C13: the loop stops only by a manual interruption; a cycle that raised
\* leaves the loop in its cool-down sleep, and the cool-down ends at the top
\* of the loop, where the next tick starts, unless the user interrupts it.
C13_LoopSurvivesExceptions ==
    /\ [][ (pc' = "stopped" /\ pc # "stopped")
           => last'.op = "keyboard_interrupt" ]_vars
    /\ [][ last'.op = "cycle_raised" => pc' = "cooldown" ]_vars
    /\ [][ (pc = "cooldown" /\ pc' # "cooldown")
           => (pc' = "idle" \/ last'.op = "keyboard_interrupt") ]_vars

\* a cycle raised, the loop slept its cool-down and began another tick
C13_Witness ==
    /\ last.op = "check_new_pools"
    /\ elapsed = ERROR_SLEEP
    /\ pc # "stopped"

(* ------------------------------------------------------------------ *)
(* C20                                                                  *)
(* ------------------------------------------------------------------ *)

\* C20: a rescan begins only when no rescan has begun before or when the loop
\* has slept at least liquidity_check_interval seconds since the previous
\* rescan began.
C20_RescanOnlyAfterInterval ==
    [][ (pc = "rescan" /\ pc' # "rescan")
        => (elapsed = NoRescanYet \/ elapsed >= liquidity_check_interval) ]_vars

(* ------------------------------------------------------------------ *)
(* C14                                                                  *)
(* ------------------------------------------------------------------ *)

\* C14: in a rescan cycle a task becomes done only by its own probe step, so
\* a probe that fails ends no task but its own; the cycle ends only when
\* every pool of the work list has been probed; and a probe that reads a
\* liquidity at or above the threshold takes the marking branch, after which
\* (the store's update having succeeded) the pool is stored tradeable.
C14_FailedProbeIsolated ==
    /\ [][ \A b \in DOMAIN taskState :
             (taskState[b] # "done" /\ b \in DOMAIN taskState'
                /\ taskState'[b] = "done")
             => (last'.op \in {"pool_checked", "pool_became_tradeable"}
                   /\ last'.addr = b) ]_vars
    /\ [][ (pc = "gather" /\ pc' # "gather")
           => \A b \in DOMAIN work : taskState[b] = "done" ]_vars
    /\ []( (Rescanned /\ ProbeRead /\ last.probe >= threshold)
           => /\ last.op = "pool_became_tradeable"
              /\ (last.saved /\ Stored(last.addr))
                   => pools[last.addr].is_tradeable )

\* the probe of one pool failed while the task of another pool of the cycle
\* is still queued
C14_Witness ==
    /\ pc = "gather"
    /\ Rescanned
    /\ last.probe = ProbeFailed
    /\ \E b \in DOMAIN taskState : b # last.addr /\ taskState[b] = "queued"

(* ------------------------------------------------------------------ *)
(* C18                                                                  *)
(* ------------------------------------------------------------------ *)

\* C18: a call of mark_pool_tradeable for a pool that is stored tradeable
\* leaves the pool's is_tradeable and current_liquidity as they were and
\* dispatches no notification.
C18_MarkTradeableNoOp ==
    [][ ( /\ last'.op = "mark_pool_tradeable"
          /\ last'.addr \in DOMAIN pools
          /\ pools[last'.addr].is_tradeable )
        => /\ pools'[last'.addr].is_tradeable = pools[last'.addr].is_tradeable
           /\ pools'[last'.addr].current_liquidity
                = pools[last'.addr].current_liquidity
           /\ dispatched' = dispatched ]_vars

(* ------------------------------------------------------------------ *)
(* C19                                                                  *)
(* ------------------------------------------------------------------ *)

\* C19: a list that get_non_tradeable_pools answers holds, once each and as
\* stored, exactly the pools stored with is_tradeable FALSE, no element
\* discovered before one that follows it; a pool saved with a liquidity below
\* the store's threshold is stored non-tradeable (so it is in the list);
\* mark_pool_tradeable makes its pool tradeable (so it is not in the list)
\* and changes no other pool's presence; and get_stats counts every stored
\* pool in total_pools and the tradeable ones in tradeable_pools.
C19_NonTradeableListing ==
    /\ []( (last.op = "get_non_tradeable_pools" /\ last.saved) =>
             LET r == last.result
             IN  /\ { r[i].address : i \in DOMAIN r }
                      = { a \in DOMAIN pools : ~pools[a].is_tradeable }
                 /\ \A i, j \in DOMAIN r : r[i].address = r[j].address => i = j
                 /\ \A i \in DOMAIN r : r[i] = pools[r[i].address]
                 /\ \A i, j \in DOMAIN r :
                      i < j => r[i].discovered_at >= r[j].discovered_at )
    /\ []( (last.op = "save_pool" /\ last.saved /\ last.probe < DEFAULT_THRESHOLD)
           => (Stored(last.addr) /\ ~pools[last.addr].is_tradeable) )
    /\ [][ ( /\ last'.op = "mark_pool_tradeable"
             /\ last'.saved
             /\ last'.addr \in DOMAIN pools )
           => /\ pools'[last'.addr].is_tradeable
              /\ DOMAIN pools' = DOMAIN pools ]_vars
    /\ []( (last.op = "get_stats" /\ last.saved) =>
             /\ last.stats.total_pools = Cardinality(DOMAIN pools)
             /\ last.stats.tradeable_pools =
                  Cardinality({ a \in DOMAIN pools : pools[a].is_tradeable }) )

\* of two stored pools the one that was saved below the threshold and then
\* marked is left out of the list, which holds the other
C19_Witness ==
    /\ last.op = "get_non_tradeable_pools"
    /\ last.saved
    /\ Cardinality(DOMAIN pools) = 2
    /\ Len(last.result) = 1
    /\ \E a \in DOMAIN pools :
         /\ pools[a].is_tradeable
         /\ pools[a].initial_liquidity < DEFAULT_THRESHOLD
         /\ a # last.result[1].address

(* ------------------------------------------------------------------ *)
(* C21                                                                  *)
(* ------------------------------------------------------------------ *)

\* C21: after a rescan probe of a stored pool has read a liquidity below the
\* configured threshold, the pool's stored current_liquidity is the liquidity
\* read.
C21_CurrentLiquidityIsLastRead ==
    ( /\ Rescanned
      /\ ProbeRead
      /\ last.probe < threshold
      /\ Stored(last.addr) )
    => pools[last.addr].current_liquidity = last.probe

(* ------------------------------------------------------------------ *)
(* C22                                                                  *)
(* ------------------------------------------------------------------ *)

\* C22: no call on the store changes the discovered_at, initial_liquidity,
\* token0, token1 or fee of a pool that has a record.
C22_CreationFieldsImmutable ==
    [][ \A a \in DOMAIN pools :
          /\ a \in DOMAIN pools'
          /\ pools'[a].discovered_at = pools[a].discovered_at
          /\ pools'[a].initial_liquidity = pools[a].initial_liquidity
          /\ pools'[a].token0 = pools[a].token0
          /\ pools'[a].token1 = pools[a].token1
          /\ pools'[a].fee = pools[a].fee ]_vars

(* ------------------------------------------------------------------ *)
(* C23                                                                  *)
(* ------------------------------------------------------------------ *)

\* C23: the processing of an event whose liquidity read failed does not
\* leave the pool stored with current_liquidity 0 and is_tradeable FALSE,
\* i.e. as a pool read at liquidity 0 is stored.
C23_FailedProbeNotStoredAsZero ==
    (Discovered /\ last.probe = ProbeFailed /\ last.saved)
    => ~( /\ Stored(last.addr)
          /\ pools[last.addr].current_liquidity = 0
          /\ ~pools[last.addr].is_tradeable )

(* ------------------------------------------------------------------ *)
(* C24                                                                  *)
(* ------------------------------------------------------------------ *)

\* C24: get_latest_block makes between 1 and 3 attempts and get_events
\* between 1 and 5; when an attempt within the budget succeeds it is the last
\* one and the tick goes on with its answer; when the budget is used up the
\* tick ends in failure with the cursor and the pool records as they were,
\* and the cycle goes on to its rescan.
C24_RetryBudgets ==
    /\ [][ last'.op = "check_new_pools" =>
             /\ last'.attempts \in 1..3
             /\ last'.fails < 3 =>
                  /\ last'.attempts = last'.fails + 1
                  /\ tick'.status \in {"noop", "running"}
                  /\ tick'.latest \in Heights
             /\ last'.fails >= 3 =>
                  /\ tick'.status = "height_failed"
                  /\ pc' = "rescan"
                  /\ latest_processed_block' = latest_processed_block
                  /\ pools' = pools ]_vars
    /\ [][ (last'.op = "query" /\ last'.attempts > 0) =>
             /\ last'.attempts \in 1..5
             /\ last'.fails < 5 =>
                  /\ last'.attempts = last'.fails + 1
                  /\ pc' = "events"
                  /\ queries'[Len(queries')].ok
             /\ last'.fails >= 5 =>
                  /\ tick'.status = "query_failed"
                  /\ ~queries'[Len(queries')].ok
                  /\ pc' = "rescan"
                  /\ latest_processed_block' = latest_processed_block
                  /\ pools' = pools ]_vars

\* get_events failed five times and the tick was given up
C24_Witness ==
    /\ last.op = "query"
    /\ last.attempts = 5
    /\ last.fails = 5
    /\ tick.status = "query_failed"
    /\ pc = "rescan"

(* ------------------------------------------------------------------ *)
(* C25                                                                  *)
(* ------------------------------------------------------------------ *)

\* C25: a discovery tick that reads a height at or below the cursor ends
\* without a query and leaves the cursor, the pool records and the
\* notification log as they were.
C25_NothingNewIsNoOp ==
    [][ ( /\ last'.op = "check_new_pools"
          /\ tick'.status # "height_failed"
          /\ tick'.latest <= latest_processed_block )
        => /\ pc' = "rescan"
           /\ tick'.status = "noop"
           /\ queries' = << >>
           /\ events' = << >>
           /\ latest_processed_block' = latest_processed_block
           /\ pools' = pools
           /\ notification_log' = notification_log ]_vars

\* the height read equals the cursor, which events have moved before
C25_Witness ==
    /\ last.op = "check_new_pools"
    /\ tick.status = "noop"
    /\ tick.latest = latest_processed_block
    /\ latest_processed_block = 1001
    /\ DOMAIN pools # {}

(* ------------------------------------------------------------------ *)
(* C26                                                                  *)
(* ------------------------------------------------------------------ *)

\* C26: at no time are more than max_worker_threads tasks of a rescan
\* running, however many pools the work list holds.
C26_BoundedWorkers ==
    Cardinality({ a \in DOMAIN taskState : taskState[a] = "running" })
      <= max_worker_threads

\* five probes are running and a sixth pool of the work list waits
C26_Witness ==
    /\ pc = "gather"
    /\ Cardinality({ a \in DOMAIN taskState : taskState[a] = "running" }) = 5
    /\ \E a \in DOMAIN taskState : taskState[a] = "queued"

(* ------------------------------------------------------------------ *)
(* C27                                                                  *)
(* ------------------------------------------------------------------ *)

\* C27: after a restart of the process on the same store no notification is
\* dispatched for a pool that was stored tradeable when the process
\* restarted, and a rescan work list fetched after the restart holds every
\* pool stored non-tradeable.
C27_RestartKeepsMilestones ==
    /\ [][ boot.count >= 2 =>
             \A a \in boot.tradeable : dispatched'[a] = dispatched[a] ]_vars
    /\ [][ (boot.count >= 2 /\ pc = "rescan" /\ pc' = "gather") =>
             DOMAIN work' = { a \in DOMAIN pools : ~pools[a].is_tradeable } ]_vars

(* ------------------------------------------------------------------ *)
(* C28                                                                  *)
(* ------------------------------------------------------------------ *)

\* C28: the record that the processing of an event has written has
\* is_tradeable TRUE exactly when the liquidity read is at or above the
\* configured threshold, which is exactly when the notification of that
\* processing is of kind liquidity_added.
C28_StoredFlagAgreesWithKind ==
    (Discovered /\ last.saved /\ ProbeRead) =>
      /\ pools[last.addr].is_tradeable = (last.probe >= threshold)
      /\ pools[last.addr].is_tradeable = (last.kind = "liquidity_added")

(* ------------------------------------------------------------------ *)
(* C29: one send_notification call with failing channels               *)
(* ------------------------------------------------------------------ *)

\* a send_notification call about to be made: its kind and, for each
\* channel, the number of attempts, counted from the first, in which the
\* channel's delivery fails
NotifyInit ==
    /\ pc = "notify"
    /\ threshold = DEFAULT_THRESHOLD
    /\ latest_processed_block = 0
    /\ current_block = -1
    /\ chunk_start = -1
    /\ events = <<>>
    /\ pools = [a \in {} |-> 0]
    /\ notification_log = <<>>
    /\ work = [a \in {} |-> 0]
    /\ taskState = [a \in {} |-> ""]
    /\ eventsLeft = 0
    /\ dispatched = [a \in PoolAddrs |-> [k \in Kinds |-> 0]]
    /\ elapsed = NoRescanYet
    /\ now = 0
    /\ boot = FirstBoot
    /\ covered = [upto |-> latest_processed_block, once |-> TRUE]
    /\ flipped = {}
    /\ queries = <<>>
    /\ tick = NoTick
    /\ \E kind \in Kinds, emailFails \in ChannelFails,
          discordFails \in ChannelFails, otherFails \in ChannelFails :
         last = [NoStep EXCEPT !.op = "send_notification",
                               !.addr = "0xp1",
                               !.kind = kind,
                               !.emailFails = emailFails,
                               !.discordFails = discordFails,
                               !.otherFails = otherFails]

\* the awaited send_notification call returns or raises
NotifySend ==
    /\ pc = "notify"
    /\ last.op = "send_notification"
    /\ LET sent == send_notification(last.emailFails, last.discordFails,
                                     last.otherFails)
       IN  /\ last' = [last EXCEPT !.op = "notified",
                                   !.attempts = sent.attempts,
                                   !.delivered = sent.delivered]
           /\ dispatched' = [dispatched EXCEPT ![last.addr][last.kind] = @ + 1]
    /\ UNCHANGED << pc, threshold, latest_processed_block, current_block,
                    chunk_start, events, pools, notification_log, work,
                    taskState, eventsLeft, elapsed, now, boot, covered, flipped,
                    queries, tick >>

NotifyNext == NotifySend

NotifySpec == NotifyInit /\ [][NotifyNext]_vars

\* attempt i of the call described by last raised: it was followed by
\* another attempt, or it was the last one and the call was not delivered
AttemptFailed(i) == i < last.attempts \/ ~last.delivered

\* C29: in a finished send_notification call, an attempt failed exactly when
\* the email delivery of that attempt failed, whatever the Discord servers
\* and the other channels did in it, and an attempt was followed by another
\* one exactly when it failed and was not the third.
C29_OnlyEmailFailsTheAttempt ==
    last.op = "notified" =>
      \A i \in 1..last.attempts :
        /\ AttemptFailed(i) <=> (i <= last.emailFails)
        /\ (i < last.attempts) <=> (i <= last.emailFails /\ i < MAX_TRIES)

\* a call delivered by its first attempt although a Discord server and
\* another channel failed in it
C29_Witness ==
    /\ last.op = "notified"
    /\ last.discordFails >= 1
    /\ last.otherFails >= 1
    /\ last.emailFails = 0
    /\ last.attempts = 1
    /\ last.delivered

(* ------------------------------------------------------------------ *)
(* C30                                                                  *)
(* ------------------------------------------------------------------ *)

\* the step is a query of the range [chunk_start, chunk_end]
QueryStep == pc = "query" /\ last'.op = "query"

\* C30: every block between the initial cursor and the highest block a
\* successful query has answered was answered by exactly one successful
\* query, and outside the processing of an answer's events that highest block
\* is the cursor; every query, the first of a tick included, starts at the
\* block after the answered ones; and a failed query leaves the answered
\* blocks and the cursor as they were, right below its first block, which is
\* where the next query starts.
C30_BlocksCoveredExactlyOnce ==
    /\ [] ( /\ covered.once
            /\ pc # "events" => covered.upto = latest_processed_block
            /\ pc = "events" => covered.upto = queries[Len(queries)].to_block )
    /\ [][ QueryStep => queries'[Len(queries')].from_block = covered.upto + 1 ]_vars
    /\ [][ (QueryStep /\ ~queries'[Len(queries')].ok) =>
             /\ covered' = covered
             /\ latest_processed_block' = latest_processed_block
             /\ latest_processed_block' = queries'[Len(queries')].from_block - 1
         ]_vars

\* the second chunk of a tick has failed after the first one was answered:
\* the cursor and the answered blocks end at block 1000, right below the
\* failed chunk
C30_Witness ==
    /\ tick.status = "query_failed"
    /\ Len(queries) = 2
    /\ queries[1].ok
    /\ ~queries[2].ok
    /\ queries[2].from_block = 1001
    /\ covered.upto = 1000
    /\ latest_processed_block = 1000

(* ------------------------------------------------------------------ *)
(* C31                                                                  *)
(* ------------------------------------------------------------------ *)

\* the step is the probe of a pool by _check_single_pool
ProbeStep == last'.op \in {"pool_checked", "pool_became_tradeable"}

\* C31: a rescan submits one task for each non-tradeable pool of the store;
\* a task is probed only while it runs and is done after its probe, and a
\* done task stays done while the cycle waits, so each pool of the work list
\* is probed exactly once; the cycle leaves the wait only when every task is
\* done; and outside the wait, in the discovery scan included, no task
\* exists.
C31_OneProbePerPoolPerCycle ==
    /\ [][ (pc = "rescan" /\ pc' = "gather") =>
             /\ DOMAIN taskState' = { a \in DOMAIN pools : ~pools[a].is_tradeable }
             /\ \A a \in DOMAIN taskState' : taskState'[a] = "queued" ]_vars
    /\ [][ ProbeStep =>
             /\ pc = "gather"
             /\ taskState[last'.addr] = "running"
             /\ taskState'[last'.addr] = "done"
             /\ \A b \in DOMAIN taskState \ {last'.addr} :
                  taskState'[b] = taskState[b] ]_vars
    /\ [][ (pc = "gather" /\ pc' = "gather") =>
             /\ DOMAIN taskState' = DOMAIN taskState
             /\ \A a \in DOMAIN taskState :
                  /\ taskState[a] = "done" => taskState'[a] = "done"
                  /\ (taskState[a] = "running" /\ taskState'[a] # "running")
                       => ProbeStep /\ last'.addr = a ]_vars
    /\ [][ (pc = "gather" /\ pc' # "gather") =>
             \A a \in DOMAIN taskState : taskState[a] = "done" ]_vars
    /\ [] ( pc # "gather" => DOMAIN taskState = {} )

\* two pools are in the work list of a cycle, one probed and done, the other
\* still running
C31_Witness ==
    /\ pc = "gather"
    /\ Cardinality(DOMAIN taskState) = 2
    /\ \E a, b \in DOMAIN taskState :
         /\ taskState[a] = "done"
         /\ taskState[b] = "running"
    /\ last.op \in {"pool_checked", "pool_became_tradeable"}

(* ------------------------------------------------------------------ *)
(* C32                                                                  *)
(* ------------------------------------------------------------------ *)

\* C32: when the processing of an event has dispatched a notification, the
\* address the notification names has a record in the store, whether
\* save_pool succeeded or not; and a rescan that dispatches one names a pool
\* of the store.
C32_NotifiedPoolIsStored ==
    /\ Discovered => Stored(last.addr)
    /\ (Rescanned /\ last.op = "pool_became_tradeable" /\ WorkerHasRunningLoop)
         => Stored(last.addr)

(* ------------------------------------------------------------------ *)
(* C33: the monitor loop under fair scheduling                          *)
(* ------------------------------------------------------------------ *)

\* the steps of a monitor that the user does not interrupt
LiveNext ==
    \/ CheckNewPools
    \/ QueryChunk
    \/ ProcessEvent
    \/ AdvanceCursor
    \/ CheckExistingPools
    \/ \E a \in PoolAddrs : TaskStart(a)
    \/ \E a \in PoolAddrs : CheckSinglePool(a)
    \/ GatherDone
    \/ UpdateMetrics
    \/ Cooldown

\* the monitor has been started on an empty store at block 1001 (line 26)
\* and the chain will deliver MaxLiveEvents creation events
LiveInit ==
    /\ pc = "idle"
    /\ threshold \in Thresholds
    /\ latest_processed_block = 1001
    /\ current_block = -1
    /\ chunk_start = -1
    /\ events = <<>>
    /\ pools = [a \in {} |-> 0]
    /\ notification_log = <<>>
    /\ work = [a \in {} |-> 0]
    /\ taskState = [a \in {} |-> ""]
    /\ eventsLeft = MaxLiveEvents
    /\ dispatched = [a \in PoolAddrs |-> [k \in Kinds |-> 0]]
    /\ elapsed = NoRescanYet
    /\ now = 0
    /\ boot = FirstBoot
    /\ covered = [upto |-> latest_processed_block, once |-> TRUE]
    /\ flipped = {}
    /\ queries = <<>>
    /\ tick = NoTick
    /\ last = NoStep

\* _check_existing_pools got a non-empty work list from the store
WorkListFetched == CheckExistingPools /\ pc' = "gather"

\* the probe of pool a read a liquidity at or above the threshold and
\* mark_pool_tradeable committed
SufficientProbe(a) ==
    /\ CheckSinglePool(a)
    /\ last'.op = "pool_became_tradeable"
    /\ last'.saved

\* the event loop and the executor run every step that stays possible
\* (each await returns, each submitted task gets a thread); a store that is
\* asked for the work list again and again answers it again and again; and a
\* pool that is probed again and again is read with sufficient liquidity,
\* and marked, again and again
LiveSpec ==
    /\ LiveInit
    /\ [][LiveNext]_vars
    /\ WF_vars(LiveNext)
    /\ SF_vars(WorkListFetched)
    /\ \A a \in PoolAddrs : SF_vars(SufficientProbe(a))

\* some liquidity the chain reports reaches the configured threshold
ThresholdReachable == \E l \in LiquidityValues : l >= threshold

\* the pool is in the list get_non_tradeable_pools answers
InNonTradeableList(a) ==
    \E listed \in get_non_tradeable_pools(pools, TRUE) :
      \E i \in DOMAIN listed : listed[i].address = a

C34_CreatedBeforeTradeable ==
    [][ \A a \in PoolAddrs :
          /\ dispatched'[a]["pool_created"] > dispatched[a]["pool_created"]
               => /\ last'.op = "event_processed"
                  /\ dispatched[a]["liquidity_added"] = 0
          /\ ProbeStep
               => dispatched'[a]["pool_created"] = dispatched[a]["pool_created"]
      ]_vars

(* ------------------------------------------------------------------ *)
(* C35                                                                  *)
(* ------------------------------------------------------------------ *)

\* the discovery step of the tick ended by a failed height read or a failed
\* event query
DiscoveryFailed == tick.status \in {"height_failed", "query_failed"}

\* C35: when the discovery step of a tick has failed, the monitor stands
\* before the rescan of that tick with the time slept since the last rescan
\* as it was, and the step it takes next is _check_existing_pools; the
\* cool-down of the loop is entered only from the end of a cycle, where the
\* metrics are updated, never from a step of the discovery.
C35_DiscoveryFailureContained ==
    /\ [] ( DiscoveryFailed => pc = "rescan" )
    /\ [][ DiscoveryFailed => last'.op = "check_existing_pools" ]_vars
    /\ [][ last'.op \in {"check_new_pools", "query"} =>
             /\ pc' \notin {"cooldown", "stopped"}
             /\ elapsed' = elapsed ]_vars
    /\ [][ (pc' = "cooldown" /\ pc # "cooldown") => pc = "metrics" ]_vars

\* the height read of a tick has failed on all of its attempts and the
\* monitor stands before the rescan
C35_Witness ==
    /\ tick.status = "height_failed"
    /\ last.op = "check_new_pools"
    /\ last.fails = LATEST_BLOCK_TRIES
    /\ pc = "rescan"

(* ------------------------------------------------------------------ *)
(* C36                                                                  *)
(* ------------------------------------------------------------------ *)

\* C36: every operation of the store leaves each stored address stored and
\* leaves each entry of the notification log in its place and as it was; the
\* log changes only by one entry appended at its end.
C36_AppendOnly ==
    [][ /\ DOMAIN pools \subseteq DOMAIN pools'
        /\ Len(notification_log') >= Len(notification_log)
        /\ Len(notification_log') <= Len(notification_log) + 1
        /\ \A i \in 1..Len(notification_log) :
             notification_log'[i] = notification_log[i] ]_vars

\* an entry has been appended to a log that held one, in a store that holds
\* a pool
C36_Witness ==
    /\ last.op = "log_notification"
    /\ last.saved
    /\ Len(notification_log) = 2
    /\ DOMAIN pools # {}

====
